---------------------------- MODULE Spec2Model ----------------------------
(***************************************************************************)
(* A model of src/src/lib.rs: the 2x xBR pixel-art upscaler.               *)
(*                                                                         *)
(*   - the packed colour accessors, color_u8_to_u32, color_f32_to_u32,     *)
(*     diff and blend are operators, with the f32 arithmetic of the source *)
(*     carried out in IEEE-754 binary32 (round to nearest, ties to even);  *)
(*   - apply is a state machine, one step per iteration of its loop body;  *)
(*   - the same loop body is also run by workers on bands of rows, to see  *)
(*     that its iterations do not depend on each other;                    *)
(*   - get_buffer_for_size is a one-step call with u32 / usize arithmetic  *)
(*     kept at its width.                                                  *)
(***************************************************************************)
EXTENDS Integers, Sequences, FiniteSets, TLC

(***************************************************************************)
(* IEEE-754 binary32.  A value is [s, m, e] and stands for                 *)
(* (-1)^s * m * 2^e, with m = 0 (zero) or 2^23 <= m < 2^24.  The values    *)
(* the program computes stay far from the subnormal and the overflow       *)
(* range, so neither is represented; the sign of a zero is dropped (the    *)
(* program only compares, and casts to u32, which cannot tell them apart). *)
(***************************************************************************)
FZero == [s |-> 0, m |-> 0, e |-> 0]

\* The number of bits of n (0 <= n < 2^31): the k with 2^(k-1) <= n < 2^k.
BitLen(n) ==
    IF n >= 1073741824 THEN 31
    ELSE IF n >= 536870912 THEN 30
    ELSE IF n >= 268435456 THEN 29
    ELSE IF n >= 134217728 THEN 28
    ELSE IF n >= 67108864 THEN 27
    ELSE IF n >= 33554432 THEN 26
    ELSE IF n >= 16777216 THEN 25
    ELSE IF n >= 8388608 THEN 24
    ELSE IF n >= 4194304 THEN 23
    ELSE IF n >= 2097152 THEN 22
    ELSE IF n >= 1048576 THEN 21
    ELSE IF n >= 524288 THEN 20
    ELSE IF n >= 262144 THEN 19
    ELSE IF n >= 131072 THEN 18
    ELSE IF n >= 65536 THEN 17
    ELSE IF n >= 32768 THEN 16
    ELSE IF n >= 16384 THEN 15
    ELSE IF n >= 8192 THEN 14
    ELSE IF n >= 4096 THEN 13
    ELSE IF n >= 2048 THEN 12
    ELSE IF n >= 1024 THEN 11
    ELSE IF n >= 512 THEN 10
    ELSE IF n >= 256 THEN 9
    ELSE IF n >= 128 THEN 8
    ELSE IF n >= 64 THEN 7
    ELSE IF n >= 32 THEN 6
    ELSE IF n >= 16 THEN 5
    ELSE IF n >= 8 THEN 4
    ELSE IF n >= 4 THEN 3
    ELSE IF n >= 2 THEN 2
    ELSE IF n >= 1 THEN 1
    ELSE 0

\* q * 2^e with q <= 2^24: a carry out of the mantissa renormalises.
RoundCarry(s, q, e) ==
    IF q = 16777216
    THEN [s |-> s, m |-> 8388608, e |-> e + 1]
    ELSE [s |-> s, m |-> q, e |-> e]

\* M has len > 24 bits: drop the k = len - 24 low bits, to nearest, ties to even.
RoundShift(s, M, e, k) ==
    RoundCarry(s,
               IF \/ M % 2^k > 2^(k - 1)
                  \/ (M % 2^k = 2^(k - 1) /\ (M \div 2^k) % 2 = 1)
               THEN (M \div 2^k) + 1
               ELSE M \div 2^k,
               e + k)

RoundBits(s, M, e, len) ==
    IF len <= 24
    THEN [s |-> s, m |-> M * 2^(24 - len), e |-> e - (24 - len)]
    ELSE RoundShift(s, M, e, len - 24)

\* The binary32 nearest to (-1)^s * M * 2^e, ties to even (0 <= M < 2^31).
FRound(s, M, e) == IF M = 0 THEN FZero ELSE RoundBits(s, M, e, BitLen(M))

\* `n as f32` for an integer 0 <= n < 2^24 (exact).
FromInt(n) == FRound(0, n, 0)

FNeg(a) == IF a.m = 0 THEN FZero ELSE [a EXCEPT !.s = 1 - a.s]

\* f32::abs
FAbs(a) == [a EXCEPT !.s = 0]

\* |a| < |b|
MagLt(a, b) ==
    IF b.m = 0 THEN FALSE
    ELSE IF a.m = 0 THEN TRUE
    ELSE a.e < b.e \/ (a.e = b.e /\ a.m < b.m)

\* a < b
FLt(a, b) ==
    IF a.s = 1 /\ b.s = 0 THEN a.m # 0 \/ b.m # 0
    ELSE IF a.s = 0 /\ b.s = 1 THEN FALSE
    ELSE IF a.s = 0 THEN MagLt(a, b)
    ELSE MagLt(b, a)

\* a <= b
FLe(a, b) == ~FLt(b, a)

\* m * 8 shifted right by d bits, the bits shifted out or-ed into bit 0.
ShiftJam(m, d) ==
    IF d >= 27 THEN 1
    ELSE LET q == (m * 8) \div 2^d
             r == (m * 8) % 2^d
         IN  IF r # 0 /\ q % 2 = 0 THEN q + 1 ELSE q

\* a + b where |a| >= |b|, both nonzero: three guard bits and a sticky bit.
AddOrdered(a, b) ==
    FRound(a.s,
           IF a.s = b.s
           THEN a.m * 8 + ShiftJam(b.m, a.e - b.e)
           ELSE a.m * 8 - ShiftJam(b.m, a.e - b.e),
           a.e - 3)

\* a + b
FAdd(a, b) ==
    IF a.m = 0 THEN b
    ELSE IF b.m = 0 THEN a
    ELSE AddOrdered(IF MagLt(a, b) THEN b ELSE a, IF MagLt(a, b) THEN a ELSE b)

\* a - b
FSub(a, b) == FAdd(a, FNeg(b))

\* a * b: the 48-bit product of the mantissas from 12-bit halves, rounded.
FMul(a, b) ==
    IF a.m = 0 \/ b.m = 0 THEN FZero
    ELSE LET a1 == a.m \div 4096
             a0 == a.m % 4096
             b1 == b.m \div 4096
             b0 == b.m % 4096
             lo  == a0 * b0
             mid == a1 * b0 + a0 * b1 + (lo \div 4096)
             hi  == a1 * b1 + (mid \div 4096)
             low == (mid % 4096) * 4096 + (lo % 4096)
             s   == IF a.s = b.s THEN 0 ELSE 1
             \* product = hi * 2^24 + low, 2^22 <= hi < 2^24, low < 2^24;
             \* hi with the top 6 bits of low and a sticky bit is enough.
             top == hi * 128 + (low \div 262144) * 2
                    + (IF low % 262144 # 0 THEN 1 ELSE 0)
         IN  FRound(s, top, a.e + b.e + 17)

\* (f as u32) & 0xFF: the cast truncates toward zero and saturates.
FToU32Low8(f) ==
    IF f.m = 0 \/ f.s = 1 THEN 0
    ELSE IF f.e >= 9 THEN 255
    ELSE IF f.e >= 0 THEN ((f.m % 256) * 2^(f.e)) % 256
    ELSE IF f.e <= -24 THEN 0
    ELSE (f.m \div 2^(-f.e)) % 256

(***************************************************************************)
(* Packed pixels (u32).  A pixel is an integer; the sampled pixels are     *)
(* below 2^31.  `&` with a mask and `>>` are written with % and \div.      *)
(***************************************************************************)

\* The red channel shifted by 8, not 16.
red_u8ShiftedBy8(p) == ((p % 16777216) \div 256) % 256

\* Pixel for u32: red_u8, ((self & 0xFF0000) >> 16) as u8
red_u8(p) == ((p % 16777216) \div 65536) % 256

\* Pixel for u32: green_u8, ((self & 0x00FF00) >> 8) as u8
green_u8(p) == ((p % 65536) \div 256) % 256

\* Pixel for u32: blue_u8, (self & 0x0000FF) as u8
blue_u8(p) == (p % 256) % 256

red_f32(p) == FromInt(red_u8(p))
green_f32(p) == FromInt(green_u8(p))
blue_f32(p) == FromInt(blue_u8(p))

\* (r as u32 & 0xFF) << 16 | (g as u32 & 0xFF) << 8 | (b as u32 & 0xFF);
\* the three fields do not overlap, so | adds.
color_u8_to_u32(r, g, b) == (r % 256) * 65536 + (g % 256) * 256 + (b % 256)

color_f32_to_u32(r, g, b) ==
    color_u8_to_u32(FToU32Low8(r) % 256, FToU32Low8(g) % 256, FToU32Low8(b) % 256)

\* The f32 literals of diff, as the nearest binary32.
Y_WEIGHT == [s |-> 0, m |-> 12582912, e |-> -18]
U_WEIGHT == [s |-> 0, m |-> 14680064, e |-> -21]
V_WEIGHT == [s |-> 0, m |-> 12582912, e |-> -21]
K_0_299000  == [s |-> 0, m |-> 10032775, e |-> -25]
K_0_587000  == [s |-> 0, m |-> 9848226,  e |-> -24]
K_0_114000  == [s |-> 0, m |-> 15300821, e |-> -27]
K_m0_168736 == [s |-> 1, m |-> 11323681, e |-> -26]
K_m0_331264 == [s |-> 1, m |-> 11115375, e |-> -25]
K_0_500000  == [s |-> 0, m |-> 8388608,  e |-> -24]
K_m0_418688 == [s |-> 1, m |-> 14048838, e |-> -25]
K_m0_081312 == [s |-> 1, m |-> 10913512, e |-> -27]
F_1_0 == [s |-> 0, m |-> 8388608, e |-> -23]
F_4_0 == [s |-> 0, m |-> 8388608, e |-> -21]
F_0_5 == [s |-> 0, m |-> 8388608, e |-> -24]

\* diff: the weighted difference between two pixels.
diff(pixel_a, pixel_b) ==
    LET r == FAbs(FSub(red_f32(pixel_a), red_f32(pixel_b)))
        b == FAbs(FSub(blue_f32(pixel_a), blue_f32(pixel_b)))
        g == FAbs(FSub(green_f32(pixel_a), green_f32(pixel_b)))
        y == FAdd(FAdd(FMul(r, K_0_299000), FMul(g, K_0_587000)), FMul(b, K_0_114000))
        u == FAdd(FAdd(FMul(r, K_m0_168736), FMul(g, K_m0_331264)), FMul(b, K_0_500000))
        v == FAdd(FAdd(FMul(r, K_0_500000), FMul(g, K_m0_418688)), FMul(b, K_m0_081312))
        weight == FAdd(FAdd(FMul(y, Y_WEIGHT), FMul(u, U_WEIGHT)), FMul(v, V_WEIGHT))
    IN  weight

\* alpha taken as the weight of pixel_a.
blendWeightsSwapped(pixel_a, pixel_b, alpha) ==
    LET reverse_alpha == FSub(F_1_0, alpha)
    IN  color_f32_to_u32(
            FAdd(FMul(alpha, red_f32(pixel_a)), FMul(reverse_alpha, red_f32(pixel_b))),
            FAdd(FMul(alpha, green_f32(pixel_a)), FMul(reverse_alpha, green_f32(pixel_b))),
            FAdd(FMul(alpha, blue_f32(pixel_a)), FMul(reverse_alpha, blue_f32(pixel_b))))

\* blend: alpha * b + (1 - alpha) * a per channel, then color_f32_to_u32.
blend(pixel_a, pixel_b, alpha) ==
    LET reverse_alpha == FSub(F_1_0, alpha)
    IN  color_f32_to_u32(
            FAdd(FMul(alpha, red_f32(pixel_b)), FMul(reverse_alpha, red_f32(pixel_a))),
            FAdd(FMul(alpha, green_f32(pixel_b)), FMul(reverse_alpha, green_f32(pixel_a))),
            FAdd(FMul(alpha, blue_f32(pixel_b)), FMul(reverse_alpha, blue_f32(pixel_a))))

(***************************************************************************)
(* The sampled inputs.                                                     *)
(***************************************************************************)
MaxWidth == 3
MaxHeight == 3
MaxArea == 4

\* The largest width * height of a call whose slices need not fit it.
MaxAreaAny == 2

\* Source pixels: black, two reds at the same distance from a third
\* (0x7F0000, 0xFE0000: diff ties), and a blue whose unused bits 24..30 are
\* set (0x7F0000FF).
Palette == {0, 8323072, 16646144, 2130706687}

\* A destination buffer not made by get_buffer_for_size: every cell holds a
\* value apply never produces here (0xABCDEF).
JunkBuffer(n) == [i \in 1..n |-> 11259375]

\* Every value a matrix cell can hold: a source pixel or pixel_at's zero.
Pixels == Palette \cup {0}

\* diff and blend(_, _, 0.5) on the sampled pixels, computed once.
DiffMemo == [a \in Pixels, b \in Pixels |-> diff(a, b)]
BlendHalfMemo == [a \in Pixels, b \in Pixels |-> blend(a, b, F_0_5)]

(***************************************************************************)
(* apply.  The sampled widths and heights are far below 2^30, so the       *)
(* `as i32` casts and the i32 products of the source neither wrap nor      *)
(* overflow, and are written as plain integers.                            *)
(***************************************************************************)
VARIABLES
    width, height,  \* apply's width and height
    image,          \* apply's image: the source pixels, 1-indexed here
    buf,            \* apply's buf: the destination pixels, 1-indexed here
    x, y,           \* the loop counters: the next iteration to run
    matrix,         \* the scratch matrix, indexed 0..20 as in the source
    pc,             \* "loop", "done" (apply returned) or "panic"
    writes,         \* per destination cell, the stores this call made to it
    call,           \* 1 or 2: the invocation of apply in progress
    before,         \* what buf held when each invocation so far began
    out1,           \* the destination the first invocation left
    workers,        \* the workers of a banded scan: scratch matrix and progress
    probe           \* a call of one of the other functions: inputs and outcome

applyVars == <<width, height, image, buf, x, y, matrix, pc, writes, call, before, out1>>
others == <<workers, probe>>
vars == <<applyVars, others>>

SCALE == 2

\* The 21 sampled offsets (dx, dy): matrix[i] = pixel_at(x + dx, y + dy).
MatrixOffsets ==
    [i \in 0..20 |->
        CASE i = 0  -> <<-1, -2>> [] i = 1  -> <<0, -2>>  [] i = 2  -> <<1, -2>>
          [] i = 3  -> <<-2, -1>> [] i = 4  -> <<-1, -1>> [] i = 5  -> <<0, -1>>
          [] i = 6  -> <<1, -1>>  [] i = 7  -> <<2, -1>>
          [] i = 8  -> <<-2, 0>>  [] i = 9  -> <<-1, 0>>  [] i = 10 -> <<0, 0>>
          [] i = 11 -> <<1, 0>>   [] i = 12 -> <<2, 0>>
          [] i = 13 -> <<-2, 1>>  [] i = 14 -> <<-1, 1>>  [] i = 15 -> <<0, 1>>
          [] i = 16 -> <<1, 1>>   [] i = 17 -> <<2, 1>>
          [] i = 18 -> <<-1, 2>>  [] i = 19 -> <<0, 2>>   [] i = 20 -> <<1, 2>>]

\* pixel_at takes the zero branch
OutOfImage(src_width, src_height, px, py) ==
    px < 0 \/ px >= src_width \/ py < 0 \/ py >= src_height

\* pixel_at indexes image out of its bounds: image[(src_width * y + x) as usize]
PixelAtPanics(img, src_width, src_height, px, py) ==
    /\ ~OutOfImage(src_width, src_height, px, py)
    /\ src_width * py + px >= Len(img)

\* the closure pixel_at, where it does not panic
pixel_at(img, src_width, src_height, px, py) ==
    IF OutOfImage(src_width, src_height, px, py)
    THEN 0
    ELSE img[(src_width * py + px) + 1]

\* The matrix cells whose assignment panics at (cx, cy).
PanicCells(img, src_width, src_height, cx, cy) ==
    {i \in 0..20 : PixelAtPanics(img, src_width, src_height,
                                 cx + MatrixOffsets[i][1], cy + MatrixOffsets[i][2])}

Min(S) == CHOOSE n \in S : \A k \in S : n <= k

\* The cells outside the image left as the scratch has them, not assigned 0.
FillMatrixSkipsOutside(old, img, src_width, src_height, cx, cy) ==
    [i \in 0..20 |->
        IF OutOfImage(src_width, src_height,
                      cx + MatrixOffsets[i][1], cy + MatrixOffsets[i][2])
        THEN old[i]
        ELSE pixel_at(img, src_width, src_height,
                      cx + MatrixOffsets[i][1], cy + MatrixOffsets[i][2])]

\* matrix[0] = ..; ..; matrix[20] = ..: the assignments before the first
\* one that panics (all 21 when none does), made to the scratch old.
FillMatrix(old, img, src_width, src_height, cx, cy) ==
    LET bad   == PanicCells(img, src_width, src_height, cx, cy)
        first == IF bad = {} THEN 21 ELSE Min(bad)
    IN  [i \in 0..20 |->
            IF i < first
            THEN pixel_at(img, src_width, src_height,
                          cx + MatrixOffsets[i][1], cy + MatrixOffsets[i][2])
            ELSE old[i]]

\* a + b + c + d + 4.0 * e, left to right in f32
Sum5(a, b, c, d, e) == FAdd(FAdd(FAdd(FAdd(a, b), c), d), FMul(F_4_0, e))


\* The candidates compared with < : a tie goes to the second.
EdgeRuleTieToSecond(a, b, d1, d2, first, second, centre) ==
    IF FLt(a, b)
    THEN LET new_pixel == IF FLt(d1, d2) THEN first ELSE second
         IN  BlendHalfMemo[new_pixel, centre]
    ELSE centre

\* if a < b { blend(if d1 <= d2 { first } else { second }, matrix[10], 0.5) }
\* else { matrix[10] }
EdgeRule(a, b, d1, d2, first, second, centre) ==
    IF FLt(a, b)
    THEN LET new_pixel == IF FLe(d1, d2) THEN first ELSE second
         IN  BlendHalfMemo[new_pixel, centre]
    ELSE centre

\* diff(matrix[i], matrix[j]) for the cells i, j of the matrix m
Diffs(m) == [i \in 0..20, j \in 0..20 |-> DiffMemo[m[i], m[j]]]

\* The four values one iteration of the loop body stores, in the order it
\* stores them: top left, top right, bottom left, bottom right; d[i, j] is
\* diff(matrix[i], matrix[j]).
Rules(m, d) ==
    LET d_10_9  == d[10, 9]
        d_10_5  == d[10, 5]
        d_10_11 == d[10, 11]
        d_10_15 == d[10, 15]
        d_10_14 == d[10, 14]
        d_10_6  == d[10, 6]
        d_4_8   == d[4, 8]
        d_4_1   == d[4, 1]
        d_9_5   == d[9, 5]
        d_9_15  == d[9, 15]
        d_9_3   == d[9, 3]
        d_5_11  == d[5, 11]
        d_5_0   == d[5, 0]
        d_10_4  == d[10, 4]
        d_10_16 == d[10, 16]
        d_6_12  == d[6, 12]
        d_6_1   == d[6, 1]
        d_11_15 == d[11, 15]
        d_11_7  == d[11, 7]
        d_5_2   == d[5, 2]
        d_14_8  == d[14, 8]
        d_14_19 == d[14, 19]
        d_15_18 == d[15, 18]
        d_9_13  == d[9, 13]
        d_16_12 == d[16, 12]
        d_16_19 == d[16, 19]
        d_15_20 == d[15, 20]
        d_15_17 == d[15, 17]
        a1 == Sum5(d_10_14, d_10_6, d_4_8, d_4_1, d_9_5)
        b1 == Sum5(d_9_15, d_9_3, d_5_11, d_5_0, d_10_4)
        a2 == Sum5(d_10_16, d_10_4, d_6_12, d_6_1, d_5_11)
        b2 == Sum5(d_11_15, d_11_7, d_9_5, d_5_2, d_10_6)
        a3 == Sum5(d_10_4, d_10_16, d_14_8, d_14_19, d_9_15)
        b3 == Sum5(d_9_5, d_9_13, d_11_15, d_15_18, d_10_14)
        a4 == Sum5(d_10_6, d_10_14, d_16_12, d_16_19, d_11_15)
        b4 == Sum5(d_9_15, d_15_20, d_15_17, d_5_11, d_10_16)
    IN  << EdgeRule(a1, b1, d_10_9, d_10_5, m[9], m[5], m[10]),
           EdgeRule(a2, b2, d_10_5, d_10_11, m[5], m[11], m[10]),
           EdgeRule(a3, b3, d_10_9, d_10_15, m[9], m[15], m[10]),
           EdgeRule(a4, b4, d_10_11, d_10_15, m[11], m[15], m[10]) >>

Quadrants(m) == Rules(m, Diffs(m))

\* The row stride taken to be the source's width, not the scaled one.
DestIdxSourceStride(src_width, cx, cy, q) ==
    CASE q = 1 -> ((cy * SCALE) * src_width) + (cx * SCALE)
      [] q = 2 -> ((cy * SCALE) * src_width) + (cx * SCALE + 1)
      [] q = 3 -> ((cy * SCALE + 1) * src_width) + (cx * SCALE)
      [] q = 4 -> ((cy * SCALE + 1) * src_width) + (cx * SCALE + 1)

\* idx of the q-th store (1..4) of iteration (cx, cy), 0-based as in the source
DestIdx(src_width, cx, cy, q) ==
    LET scaled_width == src_width * SCALE
    IN  CASE q = 1 -> ((cy * SCALE) * scaled_width) + (cx * SCALE)
          [] q = 2 -> ((cy * SCALE) * scaled_width) + (cx * SCALE + 1)
          [] q = 3 -> ((cy * SCALE + 1) * scaled_width) + (cx * SCALE)
          [] q = 4 -> ((cy * SCALE + 1) * scaled_width) + (cx * SCALE + 1)

\* The stores of one iteration that come before the first out-of-bounds one.
StoresDone(len, src_width, cx, cy) ==
    LET bad == {q \in 1..4 : DestIdx(src_width, cx, cy, q) >= len}
    IN  IF bad = {} THEN 4 ELSE Min(bad) - 1

Max(S) == CHOOSE n \in S : \A k \in S : n >= k

\* The stores among the first n of iteration (cx, cy) that go to cell i (1-based).
StoresTo(i, src_width, cx, cy, n) ==
    {q \in 1..n : DestIdx(src_width, cx, cy, q) + 1 = i}

\* A scan that forgets the bottom right store.
StoreDropsLast(b, src_width, cx, cy, vals, n) ==
    [i \in DOMAIN b |->
        IF StoresTo(i, src_width, cx, cy, IF n = 4 THEN 3 ELSE n) = {}
        THEN b[i]
        ELSE vals[Max(StoresTo(i, src_width, cx, cy, IF n = 4 THEN 3 ELSE n))]]

\* buf after the first n stores buf[idx as usize] = .. of iteration (cx, cy),
\* which store the values vals in their order.
Store(b, src_width, cx, cy, vals, n) ==
    [i \in DOMAIN b |->
        IF StoresTo(i, src_width, cx, cy, n) = {}
        THEN b[i]
        ELSE vals[Max(StoresTo(i, src_width, cx, cy, n))]]

\* The per-cell store counts after the first n stores of iteration (cx, cy).
Count(c, src_width, cx, cy, n) ==
    [i \in DOMAIN c |-> c[i] + Cardinality(StoresTo(i, src_width, cx, cy, n))]

ZeroMatrix == [i \in 0..20 |-> 0]

\* for y in 0..src_height { for x in 0..src_width { .. } } has an iteration left
InLoop == pc = "loop" /\ width > 0 /\ y < height

IterationPanics ==
    \/ PanicCells(image, width, height, x, y) # {}
    \/ StoresDone(Len(buf), width, x, y) < 4

\* One iteration of the loop body that runs to its end.
Step ==
    /\ InLoop
    /\ ~IterationPanics
    /\ LET m == FillMatrix(matrix, image, width, height, x, y)
       IN  /\ matrix' = m
           /\ buf' = Store(buf, width, x, y, Quadrants(m), 4)
           /\ writes' = Count(writes, width, x, y, 4)
    /\ IF x + 1 < width
       THEN x' = x + 1 /\ y' = y
       ELSE x' = 0 /\ y' = y + 1
    /\ UNCHANGED <<width, height, image, pc, call, before, out1, others>>

\* One iteration that panics: on an image index in the matrix assignments
\* (nothing stored), or on a buf index (the stores before it made).
StepPanics ==
    /\ InLoop
    /\ IterationPanics
    /\ LET m == FillMatrix(matrix, image, width, height, x, y)
           n == IF PanicCells(image, width, height, x, y) # {} THEN 0
                ELSE StoresDone(Len(buf), width, x, y)
       IN  /\ matrix' = m
           /\ buf' = Store(buf, width, x, y, Quadrants(m), n)
           /\ writes' = Count(writes, width, x, y, n)
    /\ pc' = "panic"
    /\ UNCHANGED <<width, height, image, x, y, call, before, out1, others>>

\* The loops are over: apply returns.
Return ==
    /\ pc = "loop"
    /\ ~(width > 0 /\ y < height)
    /\ pc' = "done"
    /\ UNCHANGED <<width, height, image, buf, x, y, matrix, writes, call, before, out1, others>>

\* The caller calls apply again on the same image: on the buffer the first
\* call filled (as the benchmark's b.iter does) or on another buffer, of
\* the same length, that holds junk.
Again ==
    /\ pc = "done"
    /\ call = 1
    /\ out1' = buf
    /\ buf' \in {buf, JunkBuffer(Len(buf))}
    /\ before' = Append(before, buf')
    /\ writes' = [i \in 1..Len(buf) |-> 0]
    /\ matrix' = ZeroMatrix
    /\ x' = 0
    /\ y' = 0
    /\ pc' = "loop"
    /\ call' = 2
    /\ UNCHANGED <<width, height, image, others>>

\* A first call of apply, on an image of the given colours and on slices of
\* the lengths src_lens and dst_lens allow; the destination is zero-filled, as
\* get_buffer_for_size makes it.
InitCall(colours, src_lens, dst_lens) ==
    /\ image \in UNION {[1..n -> colours] : n \in src_lens}
    /\ buf \in {[i \in 1..n |-> 0] : n \in dst_lens}
    /\ before = <<buf>>
    /\ writes = [i \in 1..Len(buf) |-> 0]
    /\ matrix = ZeroMatrix
    /\ x = 0
    /\ y = 0
    /\ pc = "loop"
    /\ call = 1
    /\ out1 = <<>>

InitDims(max_area) ==
    /\ width \in 0..MaxWidth
    /\ height \in 0..MaxHeight
    /\ width * height <= max_area

\* apply called as its contract asks: image of width * height pixels, buf of
\* (2 * width) * (2 * height).
Init ==
    /\ InitDims(MaxArea)
    /\ InitCall(Palette, {width * height}, {(2 * width) * (2 * height)})
    /\ workers = <<>>
    /\ probe = [fn |-> "none"]

Next == Step \/ Return \/ Again

Spec == Init /\ [][Next]_vars

\* apply called with slices of any length near the contract's.
Near(n) == {k \in {n - 1, n, n + 1} : k >= 0}

InitAny ==
    /\ InitDims(MaxAreaAny)
    /\ InitCall(Palette, Near(width * height), Near((2 * width) * (2 * height)))
    /\ workers = <<>>
    /\ probe = [fn |-> "none"]

NextAny == Step \/ StepPanics \/ Return \/ Again

SpecAny == InitAny /\ [][NextAny]_vars

(***************************************************************************)
(* The loop body of apply run by workers.  The rows are split into bands,  *)
(* one band per worker; a worker takes the pixels of its band in any order *)
(* and runs the loop body on each, on a scratch matrix of its own: the 21  *)
(* assignments in one step (no other worker sees its matrix), then the     *)
(* four stores to the shared buf one at a time.                            *)
(***************************************************************************)
NumWorkers == 2
MaxSidePar == 2
MaxAreaPar == 4

\* 0x7F0000 and 0xFE0000: with the zero of the border, three colours.
ParPalette == {8323072, 16646144}

\* The splits of the rows into bands: owner[r] is the worker of row r.  The
\* bands go to the workers in their order, the first band to worker 1; the
\* workers left over have nothing to do.
Bands ==
    {owner \in [0..(height - 1) -> 1..NumWorkers] :
        \A r \in 0..(height - 1) :
            IF r = 0 THEN owner[r] = 1
            ELSE owner[r] = owner[r - 1] \/ owner[r] = owner[r - 1] + 1}

\* The pixels of worker k's band that it has not taken yet.
Todo(k) ==
    {c \in (0..(width - 1)) \X workers[k].band :
        \A i \in 1..Len(workers[k].done) : workers[k].done[i] # c}
        \ (IF workers[k].phase = "store" THEN {workers[k].at} ELSE {})

\* Worker k takes a pixel of its band and makes the 21 matrix assignments.
WorkerFill(k) ==
    /\ workers[k].phase = "idle"
    /\ \E c \in Todo(k) :
           workers' = [workers EXCEPT
               ![k].matrix = FillMatrix(@, image, width, height, c[1], c[2]),
               ![k].phase = "store",
               ![k].at = c,
               ![k].stored = 0]
    /\ UNCHANGED <<applyVars, probe>>

\* Worker k computes the next of the four values of its pixel from its
\* matrix and stores it.
WorkerStore(k) ==
    /\ workers[k].phase = "store"
    /\ LET w   == workers[k]
           q   == w.stored + 1
           idx == DestIdx(width, w.at[1], w.at[2], q)
       IN  /\ buf' = [buf EXCEPT ![idx + 1] = Quadrants(w.matrix)[q]]
           /\ writes' = [writes EXCEPT ![idx + 1] = @ + 1]
           /\ workers' = [workers EXCEPT
                  ![k].stored = q,
                  ![k].phase = IF q = 4 THEN "idle" ELSE "store",
                  ![k].done = IF q = 4 THEN Append(@, w.at) ELSE @]
    /\ UNCHANGED <<width, height, image, x, y, matrix, pc, call, before, out1, probe>>

InitPar ==
    /\ width \in 0..MaxSidePar
    /\ height \in 0..MaxSidePar
    /\ width * height <= MaxAreaPar
    /\ InitCall(ParPalette, {width * height}, {(2 * width) * (2 * height)})
    /\ workers \in
           {[k \in 1..NumWorkers |->
                [band |-> {r \in 0..(height - 1) : owner[r] = k},
                 matrix |-> ZeroMatrix, phase |-> "idle", at |-> <<0, 0>>,
                 stored |-> 0, done |-> <<>>]] : owner \in Bands}
    /\ probe = [fn |-> "none"]

NextPar == \E k \in 1..NumWorkers : WorkerFill(k) \/ WorkerStore(k)

SpecPar == InitPar /\ [][NextPar]_vars

\* The matrix and buf of apply after the first k iterations of its loops.
RECURSIVE Scan(_, _, _, _, _)
Scan(b, img, src_width, src_height, k) ==
    IF k = 0
    THEN [matrix |-> ZeroMatrix, buf |-> b]
    ELSE LET prev == Scan(b, img, src_width, src_height, k - 1)
             cx == (k - 1) % src_width
             cy == (k - 1) \div src_width
             m == FillMatrix(prev.matrix, img, src_width, src_height, cx, cy)
         IN  [matrix |-> m,
              buf |-> Store(prev.buf, src_width, cx, cy, Quadrants(m), 4)]

(***************************************************************************)
(* The colour functions called on their own.                               *)
(***************************************************************************)
ByteSamples == {0, 1, 127, 128, 255}

\* Packed pixels: the corners of 0 .. 0xFFFFFF, one channel each, mixed
\* channels, and two values with bits above bit 23 (0x1000000, 0x7F0000FF).
PackedSamples ==
    {0, 1, 255, 256, 65280, 65536, 8323072, 16711680, 16777215, 8421504,
     1193046, 16777216, 2130706687}

\* alpha: 0.0, 0.5, 1.0
AlphaSamples == {FZero, F_0_5, F_1_0}

\* No call of apply is in progress.
NoApply ==
    /\ width = 0
    /\ height = 0
    /\ image = <<>>
    /\ buf = <<>>
    /\ before = <<>>
    /\ writes = <<>>
    /\ matrix = ZeroMatrix
    /\ x = 0
    /\ y = 0
    /\ pc = "idle"
    /\ call = 0
    /\ out1 = <<>>
    /\ workers = <<>>

CallPack ==
    /\ \E r \in ByteSamples, g \in ByteSamples, b \in ByteSamples :
           probe' = [fn |-> "color_u8_to_u32", r |-> r, g |-> g, b |-> b,
                     out |-> color_u8_to_u32(r, g, b)]
    /\ UNCHANGED <<applyVars, workers>>

CallChannels ==
    /\ \E p \in PackedSamples :
           probe' = [fn |-> "channels", p |-> p, red |-> red_u8(p),
                     green |-> green_u8(p), blue |-> blue_u8(p)]
    /\ UNCHANGED <<applyVars, workers>>

CallBlend ==
    /\ \E a \in PackedSamples, b \in PackedSamples, alpha \in AlphaSamples :
           probe' = [fn |-> "blend", pixel_a |-> a, pixel_b |-> b, alpha |-> alpha,
                     out |-> blend(a, b, alpha)]
    /\ UNCHANGED <<applyVars, workers>>

InitColor == NoApply /\ probe = [fn |-> "none"]

NextColor == CallPack \/ CallChannels \/ CallBlend

SpecColor == InitColor /\ [][NextColor]_vars

(***************************************************************************)
(* get_buffer_for_size.  A u32 or usize value is the sequence of its       *)
(* bytes, least significant first, so that the arithmetic keeps its width: *)
(* u32 has 4 bytes, usize 4 or 8 by the target.  An overflowing `*` panics *)
(* in a build with overflow checks and wraps in one without.               *)
(***************************************************************************)
U32_BYTES == 4

UsizeBytes == {4, 8}

\* 0, 1, 2, 3, 0xFFFF, 0x7FFFFFFF, 0x80000000, 0xFFFFFFFF
U32Samples ==
    { <<0, 0, 0, 0>>, <<1, 0, 0, 0>>, <<2, 0, 0, 0>>, <<3, 0, 0, 0>>,
      <<255, 255, 0, 0>>, <<255, 255, 255, 127>>, <<0, 0, 0, 128>>,
      <<255, 255, 255, 255>> }

\* The value a in k bytes: zero-extended (`as usize`) or cut to its low bytes.
Fit(a, k) == [i \in 1..k |-> IF i <= Len(a) THEN a[i] ELSE 0]

\* The value a does not fit k bytes.
Overflows(a, k) == \E i \in (k + 1)..Len(a) : a[i] # 0

\* a * n + carry for a byte n
RECURSIVE MulByte(_, _, _)
MulByte(a, n, carry) ==
    IF a = <<>>
    THEN <<carry>>
    ELSE <<(a[1] * n + carry) % 256>>
             \o MulByte(Tail(a), n, (a[1] * n + carry) \div 256)

\* a + b + carry
RECURSIVE AddBytes(_, _, _)
AddBytes(a, b, carry) ==
    IF a = <<>> /\ b = <<>>
    THEN <<carry>>
    ELSE LET t == (IF a = <<>> THEN 0 ELSE a[1]) + (IF b = <<>> THEN 0 ELSE b[1]) + carry
         IN  <<t % 256>> \o AddBytes(IF a = <<>> THEN a ELSE Tail(a),
                                     IF b = <<>> THEN b ELSE Tail(b), t \div 256)

\* a * b, exact
RECURSIVE Times(_, _)
Times(a, b) ==
    IF b = <<>>
    THEN <<>>
    ELSE AddBytes(MulByte(a, b[1], 0), <<0>> \o Times(a, Tail(b)), 0)

\* a and b are one number
Same(a, b) == Fit(a, 24) = Fit(b, 24)

\* The three operands and the three products of
\* (width as usize) * 2 * (height as usize) * 2, left to right in k bytes.
LenSteps(w, h, k) ==
    LET p1 == Fit(Times(Fit(w, k), <<2>>), k)
        p2 == Fit(Times(p1, Fit(h, k)), k)
        p3 == Fit(Times(p2, <<2>>), k)
    IN  [overflow |-> \/ Overflows(Times(Fit(w, k), <<2>>), k)
                      \/ Overflows(Times(p1, Fit(h, k)), k)
                      \/ Overflows(Times(p2, <<2>>), k),
         len |-> p3]

\* vec![0u32; n]: the 4 * n bytes of the buffer exceed isize::MAX.
CapacityOverflow(n, k) ==
    \/ Overflows(Times(n, <<4>>), k)
    \/ Times(n, <<4>>)[k] >= 128

\* get_buffer_for_size panics: an overflowing `*` under overflow checks, or
\* the capacity overflow of vec!.
SizePanics(w, h, checks, k) ==
    \/ checks /\ LenSteps(w, h, k).overflow
    \/ CapacityOverflow(LenSteps(w, h, k).len, k)
    \/ checks /\ Overflows(Times(w, <<2>>), U32_BYTES)
    \/ checks /\ Overflows(Times(h, <<2>>), U32_BYTES)

\* get_buffer_for_size returns (vec![0; ..], width * 2, height * 2); the
\* buffer is its length and the value that fills it.
SizeReturn ==
    /\ probe.fn = "get_buffer_for_size"
    /\ probe.pc = "call"
    /\ ~SizePanics(probe.width, probe.height, probe.overflow_checks, probe.usize_bytes)
    /\ probe' = [fn |-> "get_buffer_for_size", pc |-> "returned",
                 width |-> probe.width, height |-> probe.height,
                 overflow_checks |-> probe.overflow_checks,
                 usize_bytes |-> probe.usize_bytes,
                 len |-> LenSteps(probe.width, probe.height, probe.usize_bytes).len,
                 fill |-> 0,
                 out_width |-> Fit(Times(probe.width, <<2>>), U32_BYTES),
                 out_height |-> Fit(Times(probe.height, <<2>>), U32_BYTES)]
    /\ UNCHANGED <<applyVars, workers>>

SizePanic ==
    /\ probe.fn = "get_buffer_for_size"
    /\ probe.pc = "call"
    /\ SizePanics(probe.width, probe.height, probe.overflow_checks, probe.usize_bytes)
    /\ probe' = [probe EXCEPT !.pc = "panic"]
    /\ UNCHANGED <<applyVars, workers>>

InitSize ==
    /\ NoApply
    /\ probe \in
           {[fn |-> "get_buffer_for_size", pc |-> "call", width |-> w, height |-> h,
             overflow_checks |-> c, usize_bytes |-> k] :
                w \in U32Samples, h \in U32Samples, c \in BOOLEAN, k \in UsizeBytes}

NextSize == SizeReturn \/ SizePanic

SpecSize == InitSize /\ [][NextSize]_vars

(***************************************************************************)
(* The claims about apply.                                                 *)
(***************************************************************************)

\* Source pixel (px, py) has been processed by the call in progress.
Processed(px, py) == py < y \/ (py = y /\ px < x)

SourceCoords == {c \in (0..(width - 1)) \X (0..(height - 1)) : TRUE}

\* The four destination offsets the specification gives for (px, py).
ClaimedOffsets(px, py) ==
    << (2 * py) * (2 * width) + 2 * px,
       (2 * py) * (2 * width) + 2 * px + 1,
       (2 * py + 1) * (2 * width) + 2 * px,
       (2 * py + 1) * (2 * width) + 2 * px + 1 >>

\* C1: a call on slices of the contract's lengths stores to every
\* destination cell exactly once: the cells stored to so far are exactly the
\* claimed offsets of the pixels processed so far, each stored to once, the
\* offsets of distinct (pixel, quadrant) pairs are distinct, and when apply
\* returns they are all of 0 .. 4 * width * height - 1.
C1_EveryCellWrittenOnce ==
    /\ \A i \in DOMAIN writes : writes[i] <= 1
    /\ {i - 1 : i \in {j \in DOMAIN writes : writes[j] = 1}}
         = {ClaimedOffsets(c[1], c[2])[q] :
                c \in {d \in SourceCoords : Processed(d[1], d[2])}, q \in 1..4}
    /\ \A c1 \in SourceCoords, c2 \in SourceCoords, q1 \in 1..4, q2 \in 1..4 :
           ClaimedOffsets(c1[1], c1[2])[q1] = ClaimedOffsets(c2[1], c2[2])[q2]
               => (c1 = c2 /\ q1 = q2)
    /\ pc = "done" =>
           /\ Len(buf) = 4 * width * height
           /\ \A i \in DOMAIN writes : writes[i] = 1

\* A 2 x 2 call has returned with all 16 cells stored to.
C1_Witness ==
    /\ pc = "done"
    /\ width = 2
    /\ height = 2
    /\ Len(writes) = 16
    /\ \A i \in DOMAIN writes : writes[i] = 1

Uniform == \A i \in DOMAIN image : image[i] = image[1]

\* C2: a call on a uniform image (width, height >= 1) leaves every
\* destination pixel equal to the image's colour.
C2_UniformStaysUniform ==
    (pc = "done" /\ width >= 1 /\ height >= 1 /\ Uniform)
        => \A i \in DOMAIN buf : buf[i] = image[1]

LengthsFit ==
    /\ Len(image) = width * height
    /\ Len(buf) = (2 * width) * (2 * height)

\* C3: a call whose image or buf has not the contract's length never returns
\* normally.
C3_MismatchNeverReturns ==
    ~LengthsFit => pc # "done"

\* C4: the second call on the same image leaves the destination the first
\* call left, whatever the two destinations held before.
C4_Deterministic ==
    (call = 2 /\ pc = "done") => buf = out1

\* Two 2 x 2 calls have returned; their destinations began different, and
\* the image has an edge (some output pixel is a blend, not a source pixel).
C4_Witness ==
    /\ call = 2
    /\ pc = "done"
    /\ width = 2
    /\ height = 2
    /\ before[1] # before[2]
    /\ buf = out1
    /\ \E i \in DOMAIN buf : buf[i] \notin Pixels

\* C6: every pixel apply has stored has bits 24..31 zero.
C6_HighBitsZero ==
    \A i \in DOMAIN buf : writes[i] >= 1 => buf[i] < 16777216

\* The specification's neighbourhood: cell i of the diamond, row by row, as
\* an offset from the centre.
RefOffset(i) ==
    IF i <= 2 THEN <<i - 1, -2>>
    ELSE IF i <= 7 THEN <<i - 5, -1>>
    ELSE IF i <= 12 THEN <<i - 10, 0>>
    ELSE IF i <= 17 THEN <<i - 15, 1>>
    ELSE <<i - 19, 2>>

\* Cell i of the neighbourhood of (px, py): zero outside the image.
RefCell(px, py, i) ==
    LET cx == px + RefOffset(i)[1]
        cy == py + RefOffset(i)[2]
    IN  IF cx >= 0 /\ cx < width /\ cy >= 0 /\ cy < height
        THEN image[width * cy + cx + 1]
        ELSE 0

\* The specification's rule table, by quadrant: the four pairs and the
\* 4-weighted pair of A and of B, and the two candidates in their order.
RuleTable ==
    << [A  |-> << <<10, 14>>, <<10, 6>>, <<4, 8>>, <<4, 1>>, <<9, 5>> >>,
        B  |-> << <<9, 15>>, <<9, 3>>, <<5, 11>>, <<5, 0>>, <<10, 4>> >>,
        first |-> 9, second |-> 5],
       [A  |-> << <<10, 16>>, <<10, 4>>, <<6, 12>>, <<6, 1>>, <<5, 11>> >>,
        B  |-> << <<11, 15>>, <<11, 7>>, <<9, 5>>, <<5, 2>>, <<10, 6>> >>,
        first |-> 5, second |-> 11],
       [A  |-> << <<10, 4>>, <<10, 16>>, <<14, 8>>, <<14, 19>>, <<9, 15>> >>,
        B  |-> << <<9, 5>>, <<9, 13>>, <<11, 15>>, <<15, 18>>, <<10, 14>> >>,
        first |-> 9, second |-> 15],
       [A  |-> << <<10, 6>>, <<10, 14>>, <<16, 12>>, <<16, 19>>, <<11, 15>> >>,
        B  |-> << <<9, 15>>, <<15, 20>>, <<15, 17>>, <<5, 11>>, <<10, 16>> >>,
        first |-> 11, second |-> 15] >>

\* d(i, j) on the neighbourhood of (px, py)
RefD(px, py, pair) ==
    DiffMemo[RefCell(px, py, pair[1]), RefCell(px, py, pair[2])]

\* The weighted sum of five pairs: the first four plus 4 times the fifth.
RefSum(px, py, t) ==
    FAdd(FAdd(FAdd(FAdd(RefD(px, py, t[1]), RefD(px, py, t[2])),
                   RefD(px, py, t[3])), RefD(px, py, t[4])),
         FMul(F_4_0, RefD(px, py, t[5])))

\* The 50/50 blend: per channel the floor of the mean.
HalfBlend(p1, p2) ==
    ((red_u8(p1) + red_u8(p2)) \div 2) * 65536
        + ((green_u8(p1) + green_u8(p2)) \div 2) * 256
        + ((blue_u8(p1) + blue_u8(p2)) \div 2)

RefEdge(px, py, q) ==
    FLt(RefSum(px, py, RuleTable[q].A), RefSum(px, py, RuleTable[q].B))

RefTie(px, py, q) ==
    RefD(px, py, <<10, RuleTable[q].first>>) = RefD(px, py, <<10, RuleTable[q].second>>)

RefPicksFirst(px, py, q) ==
    FLe(RefD(px, py, <<10, RuleTable[q].first>>),
        RefD(px, py, <<10, RuleTable[q].second>>))

\* What the rule table gives for quadrant q of (px, py).
RefQuadrant(px, py, q) ==
    IF RefEdge(px, py, q)
    THEN HalfBlend(RefCell(px, py, 10),
                   IF RefPicksFirst(px, py, q)
                   THEN RefCell(px, py, RuleTable[q].first)
                   ELSE RefCell(px, py, RuleTable[q].second))
    ELSE RefCell(px, py, 10)

\* The source pixel the latest iteration of the loop body processed.
Latest == IF x > 0 THEN <<x - 1, y>> ELSE <<width - 1, y - 1>>

\* C10: for each quadrant of the source pixel an iteration has just
\* processed, the stored value is the rule table's: the centre if A >= B, else
\* the floor-of-mean blend of the centre with the first candidate if
\* d(centre, first) <= d(centre, second) and with the second otherwise.
C10_RuleTable ==
    (width > 0 /\ (x > 0 \/ y > 0)) =>
        \A q \in 1..4 :
            buf[ClaimedOffsets(Latest[1], Latest[2])[q] + 1]
                = RefQuadrant(Latest[1], Latest[2], q)

\* A processed pixel has an edge in some quadrant whose two candidates are
\* different pixels at equal distance from the centre (a tie, which goes to
\* the first), another has an edge that goes to the second candidate, and
\* another passes its centre through.
C10_Witness ==
    /\ pc = "done"
    /\ \E c \in SourceCoords : \E q \in 1..4 :
           /\ RefEdge(c[1], c[2], q)
           /\ RefTie(c[1], c[2], q)
           /\ red_u8(RefCell(c[1], c[2], RuleTable[q].first))
                # red_u8(RefCell(c[1], c[2], RuleTable[q].second))
    /\ \E c \in SourceCoords : \E q \in 1..4 :
           RefEdge(c[1], c[2], q) /\ ~RefPicksFirst(c[1], c[2], q)
    /\ \E c \in SourceCoords : \E q \in 1..4 : ~RefEdge(c[1], c[2], q)

(***************************************************************************)
(* The claim about the order of the iterations.                            *)
(***************************************************************************)

\* Every worker has run the loop body on every pixel of its band.
ParDone ==
    \A k \in 1..NumWorkers :
        workers[k].phase = "idle" /\ Len(workers[k].done) = width * Cardinality(workers[k].band)

\* C5: when the workers have processed every pixel, each pixel by one
\* worker, in whatever order and interleaving, buf is what the row-major
\* scan of apply leaves.
C5_OrderIndependent ==
    ParDone => buf = Scan(before[1], image, width, height, width * height).buf

\* A 2 x 2 image has been processed by two workers, a row each, the first
\* worker taking its row from right to left, and some output cell is a blend.
C5_Witness ==
    /\ ParDone
    /\ width = 2
    /\ height = 2
    /\ workers[1].done = << <<1, 0>>, <<0, 0>> >>
    /\ Len(workers[2].done) = 2
    /\ \E i \in DOMAIN buf : buf[i] \notin Pixels

(***************************************************************************)
(* The claims about the colour functions.                                  *)
(***************************************************************************)

\* C8: the red, green and blue channels of color_u8_to_u32(r, g, b) are r,
\* g and b, and color_u8_to_u32 of the channels of a packed value p in
\* 0 .. 0xFFFFFF is p.
C8_RoundTrip ==
    /\ probe.fn = "color_u8_to_u32" =>
           /\ red_u8(probe.out) = probe.r
           /\ green_u8(probe.out) = probe.g
           /\ blue_u8(probe.out) = probe.b
    /\ (probe.fn = "channels" /\ probe.p <= 16777215) =>
           color_u8_to_u32(probe.red, probe.green, probe.blue) = probe.p

\* Three different channels have been packed.
C8_Witness ==
    /\ probe.fn = "color_u8_to_u32"
    /\ probe.r = 255
    /\ probe.g = 128
    /\ probe.b = 1
    /\ probe.out = 16744449

\* C9: for packed pixels A, B in 0 .. 0xFFFFFF, blend(A, B, 0.0) = A and
\* blend(A, B, 1.0) = B.
C9_BlendBoundary ==
    (probe.fn = "blend" /\ probe.pixel_a <= 16777215 /\ probe.pixel_b <= 16777215) =>
        /\ probe.alpha = FZero => probe.out = probe.pixel_a
        /\ probe.alpha = F_1_0 => probe.out = probe.pixel_b

\* blend at alpha 1.0 of two pixels that differ in every channel.
C9_Witness ==
    /\ probe.fn = "blend"
    /\ probe.alpha = F_1_0
    /\ probe.pixel_a = 1193046
    /\ probe.pixel_b = 16777215
    /\ probe.out = 16777215

(***************************************************************************)
(* The claim about get_buffer_for_size.                                    *)
(***************************************************************************)

\* C7: a call of get_buffer_for_size returns, with a zero-filled buffer of
\* length (2 * width) * (2 * height) (0 when width or height is 0) and, for
\* width, height >= 1, the output width 2 * width and the output height
\* 2 * height, as numbers.
C7_DimensionLaw ==
    (probe.fn = "get_buffer_for_size" /\ probe.pc # "call") =>
        /\ probe.pc = "returned"
        /\ probe.fill = 0
        /\ Same(probe.len, Times(Times(probe.width, <<2>>), Times(probe.height, <<2>>)))
        /\ (~Same(probe.width, <<0>>) /\ ~Same(probe.height, <<0>>)) =>
               /\ Same(probe.out_width, Times(probe.width, <<2>>))
               /\ Same(probe.out_height, Times(probe.height, <<2>>))

=============================================================================
